---- MODULE Spec2Model ----
(***************************************************************************)
(* The tunnel supervisor of stun (src/src/manager.rs): the record map, the *)
(* public calls start_background / stop / drop made by the owner of the    *)
(* manager, the management loops it spawns, and the SSH children.          *)
(*                                                                         *)
(* Every lock-protected block of the source is one atomic step; the awaits *)
(* between two blocks (liveness poll, probes, kill, spawn) are steps of    *)
(* their own, so other tasks interleave exactly where the source yields.   *)
(*                                                                         *)
(* Option<T> is a sequence: << >> is None and <<v>> is Some(v).            *)
(* The clock is not counted.  An Instant `now + delay` is kept as its      *)
(* delay, and `reached` holds the keys whose stored next_restart_at the    *)
(* clock has passed (DeadlinePasses); `now < at` is read from it.  A       *)
(* child's exit is recorded when try_wait observes it.  status() only      *)
(* reads the records and is a stuttering step; start() takes the steps of  *)
(* start_background and then awaits the loop, so its runs are the runs in  *)
(* which the owner makes no further call.                                  *)
(***************************************************************************)
EXTENDS Integers, Sequences, FiniteSets, TLC

VARIABLES
    config,        \* the validated Config the manager was built from
    tunnels,       \* TunnelManager.tunnels: key -> TunnelInfo
    shutdown_tx,   \* TunnelManager.shutdown_tx: Option<loop whose channel it feeds>
    starts,        \* number of management loops spawned so far
    pc,            \* position of the task that owns the manager
    call,          \* locals of the public call in progress
    loops,         \* per management loop: position, channel and locals
    child,         \* per SSH child: "unborn", "running", "exited", "killed"
    stopEpoch,     \* history: `starts` when stop() last returned
    grown,         \* history: keys whose backoff_secs has been doubled
    starts_left,   \* start_background calls the owner of the manager may still make
    reached,       \* keys whose stored next_restart_at the clock has passed
    fail_cap,      \* the failure_count up to which the environment lets checks fail
    lock,          \* the RwLock of the record map: its writer and its readers
    jit,           \* a call of jitter_secs by itself: its arguments and its results
    fwdcall        \* a call of ForwardingSpec::parse by itself, then of to_ssh_arg

vars == <<config, tunnels, shutdown_tx, starts, pc, call, loops, child, stopEpoch, grown,
          starts_left, reached, fail_cap, lock, jit, fwdcall>>

----------------------------------------------------------------------------
(* Bounds of the exploration *)

\* entries of forwarding_list
NumSpecs == 2
\* calls of start_background on one manager
MaxStarts == 2
\* SSH children spawned in one run
MaxChildren == 2
\* largest failure_count a failing check may start from, plus one
FailCap == 4
\* the same for the specification that follows one record through its backoff
FailCapBackoff == 5
\* the same for the specification of any sequence of the public calls
FailCapAnyCalls == 3
\* a backoff_base_secs above the default backoff_max_secs
BigBase == 31
\* longest generated forwarding string
MaxChars == 5

(* Program constants *)

max_failures == 3
DefaultBackoffBase == 1
DefaultBackoffMax == 30

None == << >>
Some(v) == <<v>>
IsSome(o) == o /= << >>
Unwrap(o) == o[1]
UnwrapOr(o, d) == IF o = << >> THEN d ELSE o[1]

Min(a, b) == IF a <= b THEN a ELSE b
Max(a, b) == IF a >= b THEN a ELSE b

----------------------------------------------------------------------------
(* Forwarding specs.  The forwarding strings explored are canonical ones,   *)
(* so a string, its parsed spec and the key of its record (to_ssh_arg) are *)
(* named by one index in 1..NumSpecs; the model keeps the two ports.       *)

SpecIds == 1..NumSpecs

\* "8080:127.0.0.1:9000", "18080:127.0.0.1:8080", then ports derived from the index
bind_port(s) == IF s = 1 THEN 8080 ELSE IF s = 2 THEN 18080 ELSE 19000 + s
remote_port(s) == IF s = 1 THEN 9000 ELSE IF s = 2 THEN 8080 ELSE 9000 + s

RECURSIVE Xor(_, _)
Xor(a, b) ==
    IF a = 0 THEN b
    ELSE IF b = 0 THEN a
    ELSE ((a + b) % 2) + 2 * Xor(a \div 2, b \div 2)

\* u64 values are kept as Limbs digits to the base LimbBase, least significant
\* first; the last digit is beyond the 64 bits and is 0 in every u64
LimbBase == 2^16
Limbs == 5

FromInt(n) == [i \in 1..Limbs |-> IF i = 1 THEN n % LimbBase
                                  ELSE IF i = 2 THEN n \div LimbBase ELSE 0]
U64Max == [i \in 1..Limbs |-> IF i < Limbs THEN LimbBase - 1 ELSE 0]

\* x * m for a small m, exact
RECURSIVE MulFrom(_, _, _, _)
MulFrom(x, m, i, carry) ==
    IF i > Limbs THEN << >>
    ELSE LET p == x[i] * m + carry
         IN  <<p % LimbBase>> \o MulFrom(x, m, i + 1, p \div LimbBase)

MulSmall(x, m) == MulFrom(x, m, 1, 0)

\* x + c for a small c
RECURSIVE AddFrom(_, _, _)
AddFrom(x, i, carry) ==
    IF i > Limbs THEN << >>
    ELSE LET p == x[i] + carry
         IN  <<p % LimbBase>> \o AddFrom(x, i + 1, p \div LimbBase)

AddSmall(x, c) == AddFrom(x, 1, c)

\* the remainder of the digits i.. of x by a small d
RECURSIVE RemAt(_, _, _)
RemAt(x, d, i) ==
    IF i > Limbs THEN 0 ELSE (RemAt(x, d, i + 1) * LimbBase + x[i]) % d

DivSmall(x, d) == [i \in 1..Limbs |-> (RemAt(x, d, i + 1) * LimbBase + x[i]) \div d]

RECURSIVE LeqFrom(_, _, _)
LeqFrom(x, y, i) ==
    IF i = 0 THEN TRUE
    ELSE IF x[i] /= y[i] THEN x[i] < y[i]
    ELSE LeqFrom(x, y, i - 1)

Leq(x, y) == LeqFrom(x, y, Limbs)

\* a product that is not clamped to the 64 bits
unbounded_mul(x, m) == MulSmall(x, m)

\* u64::saturating_mul by a small factor
saturating_mul(x, m) ==
    LET p == MulSmall(x, m)
    IN  IF p[Limbs] /= 0 THEN U64Max ELSE p

\* u64::div_ceil by a small divisor
div_ceil(x, d) == IF RemAt(x, d, 1) > 0 THEN AddSmall(DivSmall(x, d), 1) ELSE DivSmall(x, d)

\* 80 + (((bind_port as u32) ^ (remote_port as u32)) % 41)
jitter_pct(bind, remote) == 80 + (Xor(bind, remote) % 41)

\* jitter_secs on a u64 and the two ports of the spec
jitter_u64(base_secs, bind, remote) ==
    div_ceil(saturating_mul(base_secs, jitter_pct(bind, remote)), 100)

CeilDiv(a, b) == (a + b - 1) \div b

\* jitter_secs for the record of forwarding-list entry s and a delay of the
\* explored configurations, whose product with 120 is far from saturating:
\* ceil(base * pct / 100), pct = 80 + ((bind ^ remote) % 41)
jitter_secs(base_secs, s) ==
    LET seed == Xor(bind_port(s), remote_port(s))
        jitter_pct_s == 80 + (seed % 41)
    IN  CeilDiv(base_secs * jitter_pct_s, 100)

\* the arguments explored for a call of jitter_secs by itself
JitterBases ==
    {FromInt(n) : n \in {0, 1, 2, 3, 7, 30, 101}}
        \cup {U64Max,
              <<0, 0, 0, 32768, 0>>,
              <<8738, 8738, 8738, 546, 0>>,
              <<8739, 8738, 8738, 546, 0>>,
              <<13108, 13107, 13107, 819, 0>>}
JitterPorts == {0, 1, 22, 8080, 9000, 65535}

NoJitter == [base_secs |-> FromInt(0), bind_port |-> 0, remote_port |-> 0,
             out |-> None, again |-> None]

----------------------------------------------------------------------------
(* Forwarding strings.  A string is the sequence of its characters.        *)

Digits == {"0", "1", "2", "3", "4", "5", "6", "7", "8", "9"}

DigitValue ==
    [c \in Digits |->
        CASE c = "0" -> 0 [] c = "1" -> 1 [] c = "2" -> 2 [] c = "3" -> 3 [] c = "4" -> 4
          [] c = "5" -> 5 [] c = "6" -> 6 [] c = "7" -> 7 [] c = "8" -> 8 [] c = "9" -> 9]

DigitChar == [d \in 0..9 |-> CHOOSE c \in Digits : DigitValue[c] = d]

U16Max == 65535

\* str::split(sep): the parts of s between the separators, at least one part
RECURSIVE SplitFrom(_, _, _, _)
SplitFrom(s, sep, i, part) ==
    IF i > Len(s) THEN <<part>>
    ELSE IF s[i] = sep THEN <<part>> \o SplitFrom(s, sep, i + 1, << >>)
    ELSE SplitFrom(s, sep, i + 1, Append(part, s[i]))

Split(s, sep) == SplitFrom(s, sep, 1, << >>)

\* the value of a digit string, U16Max + 1 standing for every overflow
RECURSIVE DigitsValue(_, _, _)
DigitsValue(p, i, acc) ==
    IF i > Len(p) THEN acc
    ELSE DigitsValue(p, i + 1, Min(acc * 10 + DigitValue[p[i]], U16Max + 1))

\* str::parse::<u16>: an optional "+", then one or more digits, no overflow
parse_u16(p) ==
    LET ds == IF Len(p) > 0 /\ p[1] = "+" THEN Tail(p) ELSE p
    IN  IF Len(ds) = 0 \/ \E i \in 1..Len(ds) : ds[i] \notin Digits THEN None
        ELSE IF DigitsValue(ds, 1, 0) > U16Max THEN None
        ELSE Some(DigitsValue(ds, 1, 0))

\* ForwardingSpec::parse: Err is None
parse(s) ==
    LET parts == Split(s, ":")
    IN  IF Len(parts) = 3
        THEN IF IsSome(parse_u16(parts[1])) /\ IsSome(parse_u16(parts[3]))
             THEN Some([bind_address |-> None, bind_port |-> Unwrap(parse_u16(parts[1])),
                        remote_host |-> parts[2],
                        remote_port |-> Unwrap(parse_u16(parts[3]))])
             ELSE None
        ELSE IF Len(parts) = 4
        THEN IF IsSome(parse_u16(parts[2])) /\ IsSome(parse_u16(parts[4]))
             THEN Some([bind_address |-> Some(parts[1]),
                        bind_port |-> Unwrap(parse_u16(parts[2])),
                        remote_host |-> parts[3],
                        remote_port |-> Unwrap(parse_u16(parts[4]))])
             ELSE None
        ELSE None

\* Display for u16: the decimal digits, no sign, no leading zero
RECURSIVE to_string(_)
to_string(n) ==
    IF n < 10 THEN <<DigitChar[n]>> ELSE Append(to_string(n \div 10), DigitChar[n % 10])

\* ForwardingSpec::to_ssh_arg
to_ssh_arg(f) ==
    LET tail == to_string(f.bind_port) \o <<":">> \o f.remote_host \o <<":">>
                    \o to_string(f.remote_port)
    IN  IF IsSome(f.bind_address) THEN Unwrap(f.bind_address) \o <<":">> \o tail ELSE tail

\* Config::validate_forwarding_spec
validate_forwarding_spec(s) ==
    LET parts == Split(s, ":")
    IN  /\ Len(parts) \in {3, 4}
        /\ IF Len(parts) = 3
           THEN IsSome(parse_u16(parts[1])) /\ IsSome(parse_u16(parts[3]))
           ELSE IsSome(parse_u16(parts[2])) /\ IsSome(parse_u16(parts[4]))

\* the strings of the tests and of the documentation
ThreePart ==
    <<"8", "0", "8", "0", ":", "1", "2", "7", ".", "0", ".", "0", ".", "1",
    ":", "9", "0", "0", "0">>

ThreePartOther ==
    <<"1", "8", "0", "8", "0", ":", "1", "2", "7", ".", "0", ".", "0", ".",
    "1", ":", "8", "0", "8", "0">>

FourPart ==
    <<"0", ".", "0", ".", "0", ".", "0", ":", "8", "0", "8", "0", ":", "1",
    "9", "2", ".", "1", "6", "8", ".", "1", ".", "1", "0", ":", "9", "0",
    "0", "0">>

BracketedV6 ==
    <<"[", ":", ":", "1", "]", ":", "8", "0", ":", "l", "o", "c", "a", "l",
    "h", "o", "s", "t", ":", "8", "0">>

OneWord ==
    <<"i", "n", "v", "a", "l", "i", "d">>

TwoParts ==
    <<"8", "0", "8", "0", ":", "h", "o", "s", "t">>

FiveParts ==
    <<"8", "0", "8", "0", ":", "h", "o", "s", "t", ":", "p", "o", "r", "t",
    ":", "e", "x", "t", "r", "a", ":", "p", "a", "r", "t">>

WordPort ==
    <<"i", "n", "v", "a", "l", "i", "d", "_", "p", "o", "r", "t", ":", "h",
    "o", "s", "t", ":", "9", "0", "0", "0">>

PortTooBig ==
    <<"6", "5", "5", "3", "6", ":", "h", "o", "s", "t", ":", "1">>

\* a string whose remote_host is empty
EmptyHost ==
    <<"8", "0", "8", "0", ":", ":", "9", "0", "0", "0">>

\* a bind port written with a leading zero, which parse::<u16> accepts
LeadingZero ==
    <<"0", "8", "0", "8", "0", ":", "h", ":", "9", "0", "0", "0">>

\* every string of at most MaxChars characters over a small alphabet
RECURSIVE StringsUpTo(_, _)
StringsUpTo(alphabet, n) ==
    IF n = 0 THEN {<< >>}
    ELSE LET shorter == StringsUpTo(alphabet, n - 1)
         IN  shorter \cup {Append(t, c) : t \in shorter, c \in alphabet}

ForwardingInputs ==
    {ThreePart, ThreePartOther, FourPart, BracketedV6, OneWord, TwoParts, FiveParts,
     WordPort, PortTooBig, EmptyHost, LeadingZero}
        \cup StringsUpTo({"8", "0", ":", "h"}, MaxChars)

\* str::rsplit_once(sep): the text before and after the last separator
RECURSIVE LastIndex(_, _, _)
LastIndex(t, sep, i) ==
    IF i = 0 THEN 0 ELSE IF t[i] = sep THEN i ELSE LastIndex(t, sep, i - 1)

rsplit_once(t, sep) ==
    LET i == LastIndex(t, sep, Len(t))
    IN  IF i = 0 THEN None ELSE Some(<<SubSeq(t, 1, i - 1), SubSeq(t, i + 1, Len(t))>>)

\* Config::validate on one remote_probes target: rsplitn(2, ':') gives the port
\* and then the host, "" standing for a part that is missing
probe_target_valid(t) ==
    LET cut == rsplit_once(t, ":")
        port_str == IF IsSome(cut) THEN Unwrap(cut)[2] ELSE t
        host == IF IsSome(cut) THEN Unwrap(cut)[1] ELSE << >>
    IN  Len(host) > 0 /\ Len(port_str) > 0 /\ IsSome(parse_u16(port_str))

\* Config::validate on remote_probes: every key is an entry of forwarding_list as
\* it is written there, and every target is host:port
validate_remote_probes(forwarding_list, probes) ==
    \A key \in DOMAIN probes :
        /\ \E i \in 1..Len(forwarding_list) : forwarding_list[i] = key
        /\ probe_target_valid(probes[key])

\* SshClient::remote_probe_target: the lookup under spec.to_ssh_arg()
remote_probe_target(probes, f) ==
    LET key == to_ssh_arg(f)
    IN  IF key \in DOMAIN probes
        THEN LET cut == rsplit_once(probes[key], ":")
             IN  IF IsSome(cut) /\ IsSome(parse_u16(Unwrap(cut)[2]))
                 THEN Some(<<Unwrap(cut)[1], Unwrap(parse_u16(Unwrap(cut)[2]))>>)
                 ELSE None
        ELSE None

\* remote_probes targets: host:port, a bracketed host, and one without a port
HostPort == <<"h", ":", "8", "0">>
BracketedHostPort == <<"[", ":", ":", "1", "]", ":", "8", "0">>
HostOnly == <<"h">>
ProbeTargets == {HostPort, BracketedHostPort, HostOnly}

NoParse == [input |-> << >>, out |-> None, arg |-> None, probe |-> << >>, target |-> None]

----------------------------------------------------------------------------
(* Config and TunnelManager::new *)

Modes == {"Local", "Remote"}

\* Config::validate, the part on the backoff settings (0 stands for itself)
ValidateBackoff(c) ==
    /\ ~(IsSome(c.backoff_base_secs) /\ Unwrap(c.backoff_base_secs) = 0)
    /\ ~(IsSome(c.backoff_max_secs) /\ Unwrap(c.backoff_max_secs) = 0)
    /\ ~(/\ IsSome(c.backoff_base_secs)
         /\ IsSome(c.backoff_max_secs)
         /\ Unwrap(c.backoff_max_secs) < Unwrap(c.backoff_base_secs))

\* the string of forwarding-list entry s; entry 0 is a string that is no spec
ForwardingString(s) == IF s = 1 THEN ThreePart ELSE IF s = 2 THEN ThreePartOther ELSE OneWord

\* Config::validate without the check of every forwarding string
ValidateWithoutSpecs(c) ==
    /\ Len(c.forwarding_list) > 0
    /\ c.remote_probes \subseteq {c.forwarding_list[i] : i \in 1..Len(c.forwarding_list)}
    /\ ValidateBackoff(c)

\* Config::validate
Validate(c) ==
    /\ Len(c.forwarding_list) > 0
    /\ \A i \in 1..Len(c.forwarding_list) :
           validate_forwarding_spec(ForwardingString(c.forwarding_list[i]))
    /\ c.remote_probes \subseteq {c.forwarding_list[i] : i \in 1..Len(c.forwarding_list)}
    /\ ValidateBackoff(c)

\* TunnelManager::new: the effective backoff parameters
backoff_base_secs == UnwrapOr(config.backoff_base_secs, DefaultBackoffBase)
backoff_max_secs == UnwrapOr(config.backoff_max_secs, DefaultBackoffMax)

is_local_mode == config.mode = "Local"

\* remote_probe_target(spec) is Some
HasProbeTarget(k) == k \in config.remote_probes

\* the keys start_background inserts, one per forwarding_list entry
Keys == {config.forwarding_list[i] : i \in 1..Len(config.forwarding_list)}

----------------------------------------------------------------------------
(* The RwLock of the record map.  The owner of the manager is task 0, the  *)
(* management loop of start number l is task l.                            *)

Owner == 0

Unlocked == [writer |-> None, readers |-> {}]

Holds(t) == lock.writer = Some(t) \/ t \in lock.readers

\* RwLock::read and RwLock::write return once the guard can be had
CanRead(lk) == lk.writer = None
CanWrite(lk) == lk.writer = None /\ lk.readers = {}

AcquireRead(lk, t) == [lk EXCEPT !.readers = @ \cup {t}]
AcquireWrite(lk, t) == [lk EXCEPT !.writer = Some(t)]

\* a write guard that outlives its block
KeepWrite(lk, t) == lk

\* the guard goes out of scope at the end of its block
ReleaseRead(lk, t) == [lk EXCEPT !.readers = @ \ {t}]
ReleaseWrite(lk, t) == [lk EXCEPT !.writer = None]

\* a block { let map = tunnels.read().await; ... } of task t, one atomic step
ReadBlock(t) ==
    /\ CanRead(lock)
    /\ lock' = ReleaseRead(AcquireRead(lock, t), t)

\* a block { let mut map = tunnels.write().await; ... } of task t
WriteBlock(t) ==
    /\ CanWrite(lock)
    /\ lock' = ReleaseWrite(AcquireWrite(lock, t), t)

----------------------------------------------------------------------------
(* Records, children, loops *)

Children == 1..MaxChildren
LoopIds == 1..MaxStarts

\* TunnelInfo as start / start_background insert it
NewTunnelInfo ==
    [process |-> None, health |-> "Unknown", failure_count |-> 0,
     next_restart_at |-> None, backoff_secs |-> backoff_base_secs]

NoCall == [to_start |-> {}, results |-> << >>, to_stop |-> {}, sent |-> FALSE]

\* a loop that is not inside a per-record check
IdleLoop(p, ch) ==
    [pc |-> p, chan |-> ch, keys |-> {}, key |-> None, process_opt |-> None,
     failure_count |-> 0, next_restart_at |-> None, backoff_secs |-> 0,
     process_alive |-> FALSE, probe |-> "none", forwarding_healthy |-> FALSE]

Unborn == {c \in Children : child[c] = "unborn"}

\* start_forwarding: Err, or Ok(the next child)
SpawnOutcomes == {None} \cup (IF Unborn = {} THEN {} ELSE {Some(CHOOSE c \in Unborn : \A d \in Unborn : c <= d)})

Born(res) == IF IsSome(res) THEN [child EXCEPT ![Unwrap(res)] = "running"] ELSE child

----------------------------------------------------------------------------
(* The configurations explored.  Init draws the Config from the candidates *)
(* that Config::validate accepts.                                          *)

\* the entries all different, and the same entry NumSpecs times: validate looks
\* at each entry by itself
ForwardingLists == {[i \in 1..NumSpecs |-> i], [i \in 1..NumSpecs |-> 1]}

\* a forwarding_list with one entry
OneForwarding == {<<1>>}

Configs(lists, bases, maxes) ==
    {c \in [mode : Modes,
            forwarding_list : lists,
            remote_probes : {{}, {1}},
            backoff_base_secs : bases,
            backoff_max_secs : maxes] :
        /\ Validate(c)
        /\ (c.mode = "Local" => c.remote_probes = {})}

\* the fields of a manager before any call
InitFields(cfgs, calls, cap) ==
    /\ config \in cfgs
    /\ starts_left = calls
    /\ fail_cap = cap
    /\ lock = Unlocked
    /\ tunnels = << >>
    /\ shutdown_tx = None
    /\ starts = 0
    /\ call = NoCall
    /\ loops = [l \in LoopIds |-> IdleLoop("unspawned", 0)]
    /\ child = [c \in Children |-> "unborn"]
    /\ stopEpoch = 0
    /\ grown = {}
    /\ reached = {}

\* the state after TunnelManager::new returned Ok
InitManager(cfgs, calls, cap) == InitFields(cfgs, calls, cap) /\ pc = "idle"

\* the manager by itself: no separate call of jitter_secs
InitWith(cfgs, calls, cap) ==
    InitManager(cfgs, calls, cap) /\ jit = NoJitter /\ fwdcall = NoParse

\* the owner calls start_background once, as the doc comment of
\* start_background describes (start_background, stop, await the handle)
Init == InitWith(Configs(ForwardingLists, {None, Some(0)}, {None, Some(0)}), 1, FailCap)

\* any sequence of the public calls, start_background up to MaxStarts times
InitAnyCalls ==
    InitWith({c \in Configs(OneForwarding, {None}, {None}) : c.mode = "Local"},
             MaxStarts, FailCapAnyCalls)

\* start_background up to MaxStarts times, followed into the restarts
InitStarts ==
    InitWith({c \in Configs(OneForwarding, {None}, {None}) : c.mode = "Local"},
             MaxStarts, FailCap)

\* one start_background, one record, default backoff, either mode
InitShutdown == InitWith(Configs(OneForwarding, {None}, {None}), 1, FailCap)

\* before TunnelManager::new: any configuration, valid or not, of the candidates
Candidates ==
    {c \in [mode : Modes,
            forwarding_list : {<< >>, <<0>>, <<1>>, <<1, 0>>},
            remote_probes : {{}, {1}},
            backoff_base_secs : {None, Some(0)},
            backoff_max_secs : {None, Some(0)}] :
        c.mode = "Local" => c.remote_probes = {}}

InitNew ==
    /\ InitFields(Candidates, 1, FailCap)
    /\ pc = "new"
    /\ jit = NoJitter
    /\ fwdcall = NoParse

\* one record followed through its backoff, over the backoff settings
InitBackoff ==
    InitWith(Configs(OneForwarding, {None, Some(0), Some(2), Some(BigBase)},
                     {None, Some(0), Some(3)}),
             1, FailCapBackoff)

----------------------------------------------------------------------------
(* start_background *)

\* TunnelManager::new: validate, then build the manager with an empty record map
\* and no shutdown sender; on Err there is no manager to call
New ==
    /\ pc = "new"
    /\ pc' = IF Validate(config) THEN "idle" ELSE "failed"
    /\ tunnels' = << >>
    /\ shutdown_tx' = None
    /\ UNCHANGED <<config, starts, call, loops, child, stopEpoch, grown, starts_left,
                   reached, fail_cap, lock, jit, fwdcall>>

\* the loop `ForwardingSpec::parse(spec_str)?` over forwarding_list goes through
ParsesAll(c) ==
    \A i \in 1..Len(c.forwarding_list) : IsSome(parse(ForwardingString(c.forwarding_list[i])))

\* parse every spec, `?` returning the first Err before anything else is done,
\* then insert a fresh record per spec
StartBackground ==
    /\ pc = "idle"
    /\ starts_left > 0
    /\ starts_left' = starts_left - 1
    /\ IF ParsesAll(config)
       THEN /\ WriteBlock(Owner)
            /\ tunnels' = [k \in DOMAIN tunnels \cup Keys |->
                             IF k \in Keys THEN NewTunnelInfo ELSE tunnels[k]]
            /\ grown' = grown \ Keys
            /\ pc' = "start_snapshot"
            /\ reached' = reached \ Keys
       ELSE UNCHANGED <<tunnels, grown, pc, reached, lock>>
    /\ UNCHANGED <<config, shutdown_tx, starts, call, loops, child, stopEpoch, fail_cap, jit, fwdcall>>

\* start_all_tunnels: snapshot the records without a process (read lock)
StartSnapshot ==
    /\ pc = "start_snapshot"
    /\ ReadBlock(Owner)
    /\ call' = [call EXCEPT !.to_start = {k \in DOMAIN tunnels : tunnels[k].process = None},
                            !.results = << >>]
    /\ pc' = "start_spawn"
    /\ UNCHANGED <<config, tunnels, shutdown_tx, starts, loops, child, stopEpoch, grown,
                   starts_left, reached, fail_cap, jit, fwdcall>>

ToSpawn == call.to_start \ DOMAIN call.results

\* start_all_tunnels: start_forwarding for the next snapshot entry, no lock held
StartSpawn ==
    /\ pc = "start_spawn"
    /\ ToSpawn /= {}
    /\ LET k == CHOOSE x \in ToSpawn : \A y \in ToSpawn : x <= y
       IN  \E res \in SpawnOutcomes :
             /\ call' = [call EXCEPT !.results = (k :> res) @@ call.results]
             /\ child' = Born(res)
    /\ UNCHANGED <<config, tunnels, shutdown_tx, starts, pc, loops, stopEpoch, grown,
                   starts_left, reached, fail_cap, lock, jit, fwdcall>>

\* a spawn error that leaves the record as it was
ApplyOnlyOk(info, res) ==
    IF IsSome(info.process) \/ ~IsSome(res) THEN info
    ELSE [info EXCEPT !.process = res, !.health = "Unknown", !.failure_count = 0]

\* start_all_tunnels: one result applied to one record
ApplyResult(info, res) ==
    IF IsSome(info.process) THEN info
    ELSE IF IsSome(res)
         THEN [info EXCEPT !.process = res, !.health = "Unknown", !.failure_count = 0]
         ELSE [info EXCEPT !.health = "Down"]

\* start_all_tunnels applies the results (write lock); start_background then
\* installs the shutdown channel and spawns the management loop
StartApply ==
    /\ pc = "start_spawn"
    /\ WriteBlock(Owner)
    /\ ToSpawn = {}
    /\ tunnels' = [k \in DOMAIN tunnels |->
                     IF k \in DOMAIN call.results
                     THEN ApplyResult(tunnels[k], call.results[k])
                     ELSE tunnels[k]]
    /\ shutdown_tx' = Some(starts + 1)
    /\ starts' = starts + 1
    /\ loops' = [loops EXCEPT ![starts + 1] = IdleLoop("select", 0)]
    /\ pc' = "idle"
    /\ call' = NoCall
    /\ UNCHANGED <<config, child, stopEpoch, grown,
                   starts_left, reached, fail_cap, jit, fwdcall>>

----------------------------------------------------------------------------
(* stop and drop *)

\* the receiver of loop l still exists
ReceiverAlive(l) == loops[l].pc /= "exited"

\* mpsc::Sender::send / try_send of one token on the capacity-1 channel of loop l
Send(l) ==
    IF ReceiverAlive(l) /\ loops[l].chan = 0
    THEN [loops EXCEPT ![l].chan = 1]
    ELSE loops

\* stop: take the sender and send the shutdown token
StopSend ==
    /\ pc = "idle"
    /\ loops' = IF IsSome(shutdown_tx) THEN Send(Unwrap(shutdown_tx)) ELSE loops
    /\ call' = [call EXCEPT !.sent = IsSome(shutdown_tx)]
    /\ shutdown_tx' = None
    /\ pc' = "stop_take"
    /\ UNCHANGED <<config, tunnels, starts, child, stopEpoch, grown,
                   starts_left, reached, fail_cap, lock, jit, fwdcall>>

\* stop_all_tunnels: take every process out of its record (write lock)
StopTake ==
    /\ pc = "stop_take"
    /\ WriteBlock(Owner)
    /\ call' = [call EXCEPT !.to_stop =
                   {Unwrap(tunnels[k].process) : k \in {x \in DOMAIN tunnels : IsSome(tunnels[x].process)}}]
    /\ tunnels' = [k \in DOMAIN tunnels |-> [tunnels[k] EXCEPT !.process = None]]
    /\ pc' = "stop_kill"
    /\ UNCHANGED <<config, shutdown_tx, starts, loops, child, stopEpoch, grown,
                   starts_left, reached, fail_cap, jit, fwdcall>>

\* stop_all_tunnels: kill_process on the next taken child, no lock held
StopKill ==
    /\ pc = "stop_kill"
    /\ call.to_stop /= {}
    /\ LET c == CHOOSE x \in call.to_stop : \A y \in call.to_stop : x <= y
       IN  /\ child' = [child EXCEPT ![c] = "killed"]
           /\ call' = [call EXCEPT !.to_stop = @ \ {c}]
    /\ UNCHANGED <<config, tunnels, shutdown_tx, starts, pc, loops, stopEpoch, grown,
                   starts_left, reached, fail_cap, lock, jit, fwdcall>>

\* stop returns Ok
StopReturn ==
    /\ pc = "stop_kill"
    /\ call.to_stop = {}
    /\ pc' = "idle"
    /\ call' = NoCall
    /\ stopEpoch' = starts
    /\ UNCHANGED <<config, tunnels, shutdown_tx, starts, loops, child, grown,
                   starts_left, reached, fail_cap, lock, jit, fwdcall>>

\* a drop that leaves the sender where it is and sends nothing
DropWithoutSignal ==
    /\ pc = "idle"
    /\ pc' = "dropped"
    /\ UNCHANGED <<config, tunnels, shutdown_tx, starts, call, loops, child, stopEpoch, grown,
                   starts_left, reached, fail_cap, lock, jit, fwdcall>>

\* Drop for TunnelManager: take the sender and try_send
Drop ==
    /\ pc = "idle"
    /\ loops' = IF IsSome(shutdown_tx) THEN Send(Unwrap(shutdown_tx)) ELSE loops
    /\ shutdown_tx' = None
    /\ pc' = "dropped"
    /\ UNCHANGED <<config, tunnels, starts, call, child, stopEpoch, grown,
                   starts_left, reached, fail_cap, lock, jit, fwdcall>>

----------------------------------------------------------------------------
(* management_loop and perform_health_checks                               *)
(* Loop positions: "select" (at tokio::select!), "next" (between two keys  *)
(* of a tick), "probe" (child taken, evaluating), "kill", "restart" and    *)
(* the "commit_*" positions (waiting for the write lock to commit).        *)

\* where a loop goes after a key: the next key of its snapshot, or, the for
\* loop being over, back to select!
AfterKey(keys) == IF keys = {} THEN "select" ELSE "next"

\* select!: the interval tick wins; perform_health_checks snapshots the keys
LoopTick(l) ==
    /\ loops[l].pc = "select"
    /\ ReadBlock(l)
    /\ loops' = [loops EXCEPT ![l].pc = AfterKey(DOMAIN tunnels), ![l].keys = DOMAIN tunnels]
    /\ UNCHANGED <<config, tunnels, shutdown_tx, starts, pc, call, child, stopEpoch, grown,
                   starts_left, reached, fail_cap, jit, fwdcall>>

\* shutdown_rx.recv() is ready: a token is queued, or every sender is gone
RecvReady(l) == loops[l].chan = 1 \/ shutdown_tx /= Some(l)

\* select!: shutdown_rx.recv() wins, and the loop goes on without a break
LoopShutdownContinues(l) ==
    /\ loops[l].pc = "select"
    /\ RecvReady(l)
    /\ loops' = [loops EXCEPT ![l].chan = 0]
    /\ UNCHANGED <<config, tunnels, shutdown_tx, starts, pc, call, child, stopEpoch, grown,
                   starts_left, reached, fail_cap, lock, jit, fwdcall>>

\* select!: shutdown_rx.recv() wins; the loop breaks
LoopShutdown(l) ==
    /\ loops[l].pc = "select"
    /\ RecvReady(l)
    /\ loops' = [loops EXCEPT ![l] = IdleLoop("exited", 0)]
    /\ UNCHANGED <<config, tunnels, shutdown_tx, starts, pc, call, child, stopEpoch, grown,
                   starts_left, reached, fail_cap, lock, jit, fwdcall>>

\* a take that empties every record of the snapshot at once
LoopTakeEvery(l) ==
    /\ loops[l].pc = "next"
    /\ WriteBlock(l)
    /\ \E k \in loops[l].keys \cap DOMAIN tunnels :
         /\ loops' = [loops EXCEPT ![l] =
                [@ EXCEPT !.pc = "probe",
                          !.keys = @ \ {k},
                          !.key = Some(k),
                          !.process_opt = tunnels[k].process,
                          !.failure_count = tunnels[k].failure_count,
                          !.next_restart_at = tunnels[k].next_restart_at,
                          !.backoff_secs = tunnels[k].backoff_secs]]
         /\ tunnels' = [x \in DOMAIN tunnels |-> [tunnels[x] EXCEPT !.process = None]]
    /\ UNCHANGED <<config, shutdown_tx, starts, pc, call, child, stopEpoch, grown,
                   starts_left, reached, fail_cap, jit, fwdcall>>

\* take the process and copy the fields of the next key (write lock)
LoopTake(l) ==
    /\ loops[l].pc = "next"
    /\ WriteBlock(l)
    /\ \E k \in loops[l].keys :
         IF k \in DOMAIN tunnels
         THEN /\ loops' = [loops EXCEPT ![l] =
                    [@ EXCEPT !.pc = "probe",
                              !.keys = @ \ {k},
                              !.key = Some(k),
                              !.process_opt = tunnels[k].process,
                              !.failure_count = tunnels[k].failure_count,
                              !.next_restart_at = tunnels[k].next_restart_at,
                              !.backoff_secs = tunnels[k].backoff_secs]]
              /\ tunnels' = [tunnels EXCEPT ![k].process = None]
         ELSE /\ loops' = [loops EXCEPT ![l].keys = @ \ {k},
                                        ![l].pc = AfterKey(loops[l].keys \ {k})]
              /\ UNCHANGED tunnels
    /\ UNCHANGED <<config, shutdown_tx, starts, pc, call, child, stopEpoch, grown,
                   starts_left, reached, fail_cap, jit, fwdcall>>

\* check_ssh_process (try_wait) on the taken child: <<process_alive, the child after the poll>>
\* Ok(None); Ok(Some(status)), which is where the exit is recorded; Err
PollOutcomes(l) ==
    LET p == loops[l].process_opt
    IN  IF IsSome(p) /\ child[Unwrap(p)] = "running"
        THEN {<<TRUE, "running">>, <<FALSE, "exited">>, <<FALSE, "running">>}
        ELSE IF IsSome(p) THEN {<<FALSE, child[Unwrap(p)]>>}
        ELSE {<<FALSE, "none">>}

\* a remote probe run for every record, whatever remote_probes holds
ProbeEveryRemote(process_alive, k) ==
    IF ~process_alive THEN {<<"none", FALSE>>}
    ELSE IF is_local_mode THEN {<<"local", b>> : b \in BOOLEAN}
    ELSE {<<"remote", b>> : b \in BOOLEAN}

\* the probe that ran and forwarding_healthy: check_forwarding in local mode; in
\* remote mode the remote probe when remote_probe_target finds a target (Ok(true),
\* Ok(false) or Err), else no probe and true
ForwardingOutcomes(process_alive, k) ==
    IF ~process_alive THEN {<<"none", FALSE>>}
    ELSE IF is_local_mode THEN {<<"local", b>> : b \in BOOLEAN}
    ELSE IF HasProbeTarget(k) THEN {<<"remote", b>> : b \in BOOLEAN}
    ELSE {<<"none", TRUE>>}

is_healthy(process_alive, forwarding_healthy) ==
    IF is_local_mode THEN process_alive /\ forwarding_healthy ELSE process_alive

\* `now < at` for the copy `at` a loop holds: read from `reached` while the record
\* still holds the instant the loop copied, either answer once it holds another
NowBefore(l) ==
    LET k == Unwrap(loops[l].key)
    IN  IF k \in DOMAIN tunnels /\ tunnels[k].next_restart_at = loops[l].next_restart_at
        THEN {k \notin reached}
        ELSE BOOLEAN

\* the branch of perform_health_checks taken after the evaluation
NextStep(healthy, failure_count, next_restart_at, now_before, process_opt) ==
    IF healthy THEN "commit_healthy"
    ELSE IF failure_count >= max_failures
         THEN IF IsSome(next_restart_at)
              THEN IF now_before THEN "commit_wait" ELSE "restart"
              ELSE IF IsSome(process_opt) THEN "kill" ELSE "commit_first"
         ELSE "commit_down"

\* liveness poll, settle sleep and probe, no lock held; then failure_count += 1
\* and now = Instant::now() on the unhealthy side
LoopProbe(l) ==
    /\ loops[l].pc = "probe"
    /\ \E poll \in PollOutcomes(l) :
       \E fwd \in ForwardingOutcomes(poll[1], Unwrap(loops[l].key)) :
       \E now_before \in NowBefore(l) :
         LET h == is_healthy(poll[1], fwd[2])
             fc == IF h THEN loops[l].failure_count ELSE loops[l].failure_count + 1
         IN  /\ h \/ loops[l].failure_count < fail_cap
             /\ loops' = [loops EXCEPT ![l].pc =
                              NextStep(h, fc, loops[l].next_restart_at, now_before,
                                       loops[l].process_opt),
                                       ![l].failure_count = fc,
                                       ![l].process_alive = poll[1],
                                       ![l].probe = fwd[1],
                                       ![l].forwarding_healthy = fwd[2]]
             /\ child' = IF IsSome(loops[l].process_opt)
                         THEN [child EXCEPT ![Unwrap(loops[l].process_opt)] = poll[2]]
                         ELSE child
    /\ UNCHANGED <<config, tunnels, shutdown_tx, starts, pc, call, stopEpoch, grown,
                   starts_left, reached, fail_cap, lock, jit, fwdcall>>

\* first crossing: kill_process on the taken child, no lock held
LoopKill(l) ==
    /\ loops[l].pc = "kill"
    /\ child' = [child EXCEPT ![Unwrap(loops[l].process_opt)] = "killed"]
    /\ loops' = [loops EXCEPT ![l].pc = "commit_first", ![l].process_opt = None]
    /\ UNCHANGED <<config, tunnels, shutdown_tx, starts, pc, call, stopEpoch, grown,
                   starts_left, reached, fail_cap, lock, jit, fwdcall>>

\* start_forwarding once the deadline has been reached, no lock held
LoopRestart(l) ==
    /\ loops[l].pc = "restart"
    /\ \E res \in SpawnOutcomes :
         /\ child' = Born(res)
         /\ loops' = [loops EXCEPT ![l].process_opt = res,
                                   ![l].pc = IF IsSome(res) THEN "commit_restarted"
                                             ELSE "commit_restart_failed"]
    /\ UNCHANGED <<config, tunnels, shutdown_tx, starts, pc, call, stopEpoch, grown,
                   starts_left, reached, fail_cap, lock, jit, fwdcall>>

\* a commit that removes the record it was to update
CommitRemoves(l, info, fresh) ==
    LET k == Unwrap(loops[l].key)
    IN  /\ WriteBlock(l)
        /\ tunnels' = [x \in DOMAIN tunnels \ {k} |-> tunnels[x]]
        /\ reached' = reached \ {k}
        /\ loops' = [loops EXCEPT ![l] =
               [IdleLoop(AfterKey(loops[l].keys), @.chan) EXCEPT !.keys = loops[l].keys]]

\* the write-lock block that ends a check: store `info` and go to the next key;
\* `fresh` says that info.next_restart_at is an instant computed by this check
Commit(l, info, fresh) ==
    LET k == Unwrap(loops[l].key)
    IN  /\ WriteBlock(l)
        /\ tunnels' = IF k \in DOMAIN tunnels THEN [tunnels EXCEPT ![k] = info] ELSE tunnels
        /\ reached' = IF fresh \/ info.next_restart_at = None THEN reached \ {k} ELSE reached
        /\ loops' = [loops EXCEPT ![l] =
               [IdleLoop(AfterKey(loops[l].keys), @.chan) EXCEPT !.keys = loops[l].keys]]

\* a healthy commit that does not put the child back
HealthyInfoWithoutChild(l) ==
    [process |-> None, health |-> "Healthy", failure_count |-> 0,
     next_restart_at |-> None, backoff_secs |-> 1]

\* healthy branch
HealthyInfo(l) ==
    [process |-> loops[l].process_opt, health |-> "Healthy", failure_count |-> 0,
     next_restart_at |-> None, backoff_secs |-> 1]

CommitHealthy(l) ==
    /\ loops[l].pc = "commit_healthy"
    /\ Commit(l, HealthyInfo(l), FALSE)
    /\ UNCHANGED <<config, shutdown_tx, starts, pc, call, child, stopEpoch, grown, starts_left,
                   fail_cap, jit, fwdcall>>

\* a commit below max_failures that does not put the child back
DownInfoWithoutChild(l) ==
    [process |-> None, health |-> "Down",
     failure_count |-> loops[l].failure_count,
     next_restart_at |-> loops[l].next_restart_at,
     backoff_secs |-> loops[l].backoff_secs]

\* unhealthy, below max_failures: put the process back
DownInfo(l) ==
    [process |-> loops[l].process_opt, health |-> "Down",
     failure_count |-> loops[l].failure_count,
     next_restart_at |-> loops[l].next_restart_at,
     backoff_secs |-> loops[l].backoff_secs]

CommitDown(l) ==
    /\ loops[l].pc = "commit_down"
    /\ Commit(l, DownInfo(l), FALSE)
    /\ UNCHANGED <<config, shutdown_tx, starts, pc, call, child, stopEpoch, grown, starts_left,
                   fail_cap, jit, fwdcall>>

\* threshold reached, deadline not reached yet: the same fields as below the threshold
WaitInfo(l) == DownInfo(l)

CommitWait(l) ==
    /\ loops[l].pc = "commit_wait"
    /\ Commit(l, WaitInfo(l), FALSE)
    /\ UNCHANGED <<config, shutdown_tx, starts, pc, call, child, stopEpoch, grown, starts_left,
                   fail_cap, jit, fwdcall>>

\* a failed restart that doubles the backoff without the ceiling
GrownBackoffUncapped(l) == loops[l].backoff_secs * 2

\* first crossing: schedule the restart
FirstBackoff(l) == Max(loops[l].backoff_secs, 1)

FirstInfo(l) ==
    [process |-> None, health |-> "Down",
     failure_count |-> loops[l].failure_count,
     next_restart_at |-> Some(jitter_secs(FirstBackoff(l), Unwrap(loops[l].key))),
     backoff_secs |-> FirstBackoff(l)]

CommitFirst(l) ==
    /\ loops[l].pc = "commit_first"
    /\ Commit(l, FirstInfo(l), TRUE)
    /\ UNCHANGED <<config, shutdown_tx, starts, pc, call, child, stopEpoch, grown, starts_left,
                   fail_cap, jit, fwdcall>>

\* a restart commit that keeps the failure_count of the episode
RestartedInfoKeepsCount(l) ==
    [process |-> loops[l].process_opt, health |-> "Unknown",
     failure_count |-> loops[l].failure_count,
     next_restart_at |-> None, backoff_secs |-> 1]

\* start_forwarding returned Ok(new_proc)
RestartedInfo(l) ==
    [process |-> loops[l].process_opt, health |-> "Unknown", failure_count |-> 0,
     next_restart_at |-> None, backoff_secs |-> 1]

CommitRestarted(l) ==
    /\ loops[l].pc = "commit_restarted"
    /\ Commit(l, RestartedInfo(l), FALSE)
    /\ UNCHANGED <<config, shutdown_tx, starts, pc, call, child, stopEpoch, grown, starts_left,
                   fail_cap, jit, fwdcall>>

\* start_forwarding returned Err: grow the backoff and schedule again
GrownBackoff(l) == Min(loops[l].backoff_secs * 2, backoff_max_secs)

RestartFailedInfo(l) ==
    [process |-> None, health |-> "Down",
     failure_count |-> loops[l].failure_count,
     next_restart_at |-> Some(jitter_secs(GrownBackoff(l), Unwrap(loops[l].key))),
     backoff_secs |-> GrownBackoff(l)]

CommitRestartFailed(l) ==
    /\ loops[l].pc = "commit_restart_failed"
    /\ Commit(l, RestartFailedInfo(l), TRUE)
    /\ grown' = IF GrownBackoff(l) > loops[l].backoff_secs
                THEN grown \cup {Unwrap(loops[l].key)} ELSE grown
    /\ UNCHANGED <<config, shutdown_tx, starts, pc, call, child, stopEpoch, starts_left,
                   fail_cap, jit, fwdcall>>

----------------------------------------------------------------------------
(* The environment: time passes *)

\* the clock passes the next_restart_at stored for key k
DeadlinePasses(k) ==
    /\ k \in DOMAIN tunnels
    /\ IsSome(tunnels[k].next_restart_at)
    /\ k \notin reached
    /\ reached' = reached \cup {k}
    /\ UNCHANGED <<config, tunnels, shutdown_tx, starts, pc, call, loops, child, stopEpoch,
                   grown, starts_left, fail_cap, lock, jit, fwdcall>>

----------------------------------------------------------------------------

\* the steps of start_background
StartSteps ==
    \/ StartBackground
    \/ StartSnapshot
    \/ StartSpawn
    \/ StartApply

\* the steps of stop, and drop
StopSteps ==
    \/ StopSend
    \/ StopTake
    \/ StopKill
    \/ StopReturn
    \/ Drop

\* the steps of the management loops
LoopSteps ==
    \/ \E l \in LoopIds : LoopTick(l)
    \/ \E l \in LoopIds : LoopShutdown(l)
    \/ \E l \in LoopIds : LoopTake(l)
    \/ \E l \in LoopIds : LoopProbe(l)
    \/ \E l \in LoopIds : LoopKill(l)
    \/ \E l \in LoopIds : LoopRestart(l)
    \/ \E l \in LoopIds : CommitHealthy(l)
    \/ \E l \in LoopIds : CommitDown(l)
    \/ \E l \in LoopIds : CommitWait(l)
    \/ \E l \in LoopIds : CommitFirst(l)
    \/ \E l \in LoopIds : CommitRestarted(l)
    \/ \E l \in LoopIds : CommitRestartFailed(l)

ClockSteps == \E k \in SpecIds : DeadlinePasses(k)

Next == StartSteps \/ StopSteps \/ LoopSteps \/ ClockSteps

\* the owner calls start_background only
NextStarts == StartSteps \/ LoopSteps \/ ClockSteps

\* one start_background, then any stop calls and drop; two records
Spec == Init /\ [][Next]_vars

\* any sequence of start_background, stop and drop; one record
SpecAnyCalls == InitAnyCalls /\ [][Next]_vars

\* start_background called again beside a running loop, no stop; one record
SpecStarts == InitStarts /\ [][NextStarts]_vars

\* one start_background, one record, over the backoff settings
SpecBackoff == InitBackoff /\ [][Next]_vars

\* the steps of loop l between two selects: each of them is a lock acquisition or
\* an operation on a child or the network that returns
InFlight(l) ==
    \/ LoopTake(l) \/ LoopProbe(l) \/ LoopKill(l) \/ LoopRestart(l)
    \/ CommitHealthy(l) \/ CommitDown(l) \/ CommitWait(l)
    \/ CommitFirst(l) \/ CommitRestarted(l) \/ CommitRestartFailed(l)

\* the tokio task of loop l keeps running: its in-flight step is taken, and
\* select!, which picks among its ready branches at random, does not pass over a
\* ready recv() for ever
LoopFair(l) == WF_vars(InFlight(l)) /\ SF_vars(LoopShutdown(l))

\* one start_background, one record, then any stop calls and drop, with the
\* loops scheduled
SpecShutdown == InitShutdown /\ [][Next]_vars /\ \A l \in LoopIds : LoopFair(l)

\* TunnelManager::new on any candidate configuration, then as Spec
NextNew == New \/ Next

SpecNew == InitNew /\ [][NextNew]_vars

\* jitter_secs called on its own, for any delay and any pair of ports
InitJitter ==
    /\ InitManager(Configs(OneForwarding, {None}, {None}), 0, 0)
    /\ jit \in [base_secs : JitterBases, bind_port : JitterPorts, remote_port : JitterPorts,
                 out : {None}, again : {None}]
    /\ fwdcall = NoParse

JitterCall ==
    /\ jit.out = None
    /\ jit' = [jit EXCEPT !.out = Some(jitter_u64(jit.base_secs, jit.bind_port, jit.remote_port))]
    /\ UNCHANGED <<config, tunnels, shutdown_tx, starts, pc, call, loops, child, stopEpoch,
                   grown, starts_left, reached, fail_cap, lock, fwdcall>>

\* the same call once more
JitterAgain ==
    /\ jit.out /= None /\ jit.again = None
    /\ jit' = [jit EXCEPT !.again = Some(jitter_u64(jit.base_secs, jit.bind_port, jit.remote_port))]
    /\ UNCHANGED <<config, tunnels, shutdown_tx, starts, pc, call, loops, child, stopEpoch,
                   grown, starts_left, reached, fail_cap, lock, fwdcall>>

NextJitter == JitterCall \/ JitterAgain

SpecJitter == InitJitter /\ [][NextJitter]_vars

\* ForwardingSpec::parse called on its own, then to_ssh_arg on what it returned
InitParse ==
    /\ InitManager(Configs(OneForwarding, {None}, {None}), 0, 0)
    /\ jit = NoJitter
    /\ fwdcall \in [input : ForwardingInputs, out : {None}, arg : {None},
                     probe : ProbeTargets, target : {None}]

\* fwdcall.out is Some(the Result): Some(None) for Err, Some(Some(spec)) for Ok(spec)
ParseCall ==
    /\ fwdcall.out = None
    /\ fwdcall' = [fwdcall EXCEPT !.out = Some(parse(fwdcall.input))]
    /\ UNCHANGED <<config, tunnels, shutdown_tx, starts, pc, call, loops, child, stopEpoch,
                   grown, starts_left, reached, fail_cap, lock, jit>>

ToSshArgCall ==
    /\ fwdcall.out /= None /\ IsSome(Unwrap(fwdcall.out)) /\ fwdcall.arg = None
    /\ fwdcall' = [fwdcall EXCEPT !.arg = Some(to_ssh_arg(Unwrap(Unwrap(fwdcall.out))))]
    /\ UNCHANGED <<config, tunnels, shutdown_tx, starts, pc, call, loops, child, stopEpoch,
                   grown, starts_left, reached, fail_cap, lock, jit>>

\* the Config the call is made under: forwarding_list [input] and
\* remote_probes {input: probe}
ProbesOfCall == [key \in {fwdcall.input} |-> fwdcall.probe]

\* remote_probe_target on the spec parse returned, in a manager whose Config
\* validate accepted; fwdcall.target is Some(the Option it returned)
RemoteProbeTargetCall ==
    /\ fwdcall.out /= None /\ IsSome(Unwrap(fwdcall.out)) /\ fwdcall.target = None
    /\ validate_forwarding_spec(fwdcall.input)
    /\ validate_remote_probes(<<fwdcall.input>>, ProbesOfCall)
    /\ fwdcall' = [fwdcall EXCEPT !.target =
                       Some(remote_probe_target(ProbesOfCall, Unwrap(Unwrap(fwdcall.out))))]
    /\ UNCHANGED <<config, tunnels, shutdown_tx, starts, pc, call, loops, child, stopEpoch,
                   grown, starts_left, reached, fail_cap, lock, jit>>

NextParse == ParseCall \/ ToSshArgCall \/ RemoteProbeTargetCall

SpecParse == InitParse /\ [][NextParse]_vars

\* get_status: the health of every record, read under the read lock
get_status == [k \in DOMAIN tunnels |-> tunnels[k].health]

----------------------------------------------------------------------------
(* Properties of stop *)

\* stop has returned after start number l, and the loop of that start has exited
StoppedAndExited(l) == l <= stopEpoch /\ loops[l].pc = "exited"

\* a check of loop l for some key is in flight (taken, not committed yet)
InCheck(l) == IsSome(loops[l].key)

\* loop l calls start_forwarding for a restart in this step
RestartStep(l) == loops[l].pc = "restart" /\ loops'[l].pc /= "restart"

\* C1: stop leaves no residual children.  Once stop has returned and the
\* management loop started by start_background has exited, no spawned child is
\* still running and no record holds a child handle, whatever the interleaving
\* of stop with a check that had the handle taken out of the record.
NoResidualChildren ==
    StoppedAndExited(1) =>
        /\ \A c \in Children : child[c] /= "running"
        /\ \A k \in DOMAIN tunnels : tunnels[k].process = None

\* C2: stop is terminal.  Once stop has been called and has returned, the
\* management loop begins no further start_forwarding for any record, even if
\* it was in the middle of a tick when the shutdown token was sent.
StopIsTerminal ==
    [][\A l \in LoopIds : l <= stopEpoch => ~RestartStep(l)]_vars

\* C3: stop is idempotent.  Only a call that finds the sender of a start
\* sends a token; a call that finds none (a second call, or a call before any
\* start) sends nothing, changes no field of any record and kills nothing: its
\* stop_all_tunnels takes no process out of any record.  (Every call returns
\* Ok: StopReturn has no failing branch.)
SecondStopChangesNothing ==
    [][/\ (pc = "idle" /\ pc' = "stop_take" /\ shutdown_tx = None) => loops' = loops
       /\ (pc = "stop_take" /\ pc' = "stop_kill" /\ ~call.sent)
             => (tunnels' = tunnels /\ call'.to_stop = {})]_vars

----------------------------------------------------------------------------
(* Invariants of a record *)

\* C4: for every record and every reachable state, also while a check of that
\* record is in flight and after stop, a record without a child is Unknown or
\* Down, never Healthy.
NoChildNotHealthy ==
    \A k \in DOMAIN tunnels :
        tunnels[k].process = None => tunnels[k].health \in {"Unknown", "Down"}

\* C5: for every record in every reachable state, if next_restart_at is set
\* then failure_count >= max_failures and the record holds no child.
DeadlineImpliesDown ==
    \A k \in DOMAIN tunnels :
        IsSome(tunnels[k].next_restart_at) =>
            /\ tunnels[k].failure_count >= max_failures
            /\ tunnels[k].process = None

\* C6: for every record and every configured backoff_base_secs >= 1 (here:
\* not above backoff_max_secs), after the first growth of its backoff,
\* backoff_secs never drops below backoff_base_secs, also across later healthy
\* observations and successful restarts.
BackoffAtLeastBase ==
    backoff_base_secs <= backoff_max_secs =>
        \A k \in grown : backoff_base_secs <= tunnels[k].backoff_secs

\* C7: for every configuration accepted by validation and every record,
\* backoff_secs <= backoff_max_secs (the effective cap, 30 by default) in
\* every reachable state, from the creation of the record onward.
BackoffAtMostMax ==
    \A k \in DOMAIN tunnels : tunnels[k].backoff_secs <= backoff_max_secs

----------------------------------------------------------------------------
(* Properties of the restart schedule *)

\* loop l commits a failed restart in this step
FailedRestartStep(l) ==
    loops[l].pc = "commit_restart_failed" /\ loops'[l].pc /= "commit_restart_failed"

\* C8: on every failed restart of a record, backoff_secs strictly increases
\* while it is below backoff_max_secs, stays at backoff_max_secs once there,
\* and never decreases.
BackoffGrowsUntilCapped ==
    [][\A l \in LoopIds : FailedRestartStep(l) =>
          LET k == Unwrap(loops[l].key)
              old == tunnels[k].backoff_secs
              new == tunnels'[k].backoff_secs
          IN  /\ new >= old
              /\ (old < backoff_max_secs => new > old)
              /\ (old = backoff_max_secs => new = backoff_max_secs)]_vars

\* C9: while the next_restart_at of a record is set, the management loop makes
\* no restart attempt (no start_forwarding) for that record before the clock
\* has passed it.
NoRestartBeforeDeadline ==
    [][\A l \in LoopIds : RestartStep(l) =>
          LET k == Unwrap(loops[l].key)
          IN  IsSome(tunnels[k].next_restart_at) => k \in reached]_vars

\* C10: probes are serialized per record.  For any sequence of the public
\* calls on one manager, no two checks (take, probe, commit) of the same
\* record are in progress at once.
ProbesSerialized ==
    \A l1, l2 \in LoopIds :
        (l1 /= l2 /\ InCheck(l1) /\ InCheck(l2)) => loops[l1].key /= loops[l2].key

\* the loop has evaluated the record it holds and not yet committed
Evaluated(l) ==
    loops[l].pc \in {"commit_healthy", "commit_down", "commit_wait", "commit_first", "kill",
                     "restart", "commit_restarted", "commit_restart_failed"}

\* some task is inside a child or network operation
InIO == pc \in {"start_spawn", "stop_kill"}
        \/ \E l \in LoopIds : loops[l].pc \in {"probe", "kill", "restart"}

\* C11: no task holds the lock of the record map while it is inside the liveness
\* poll, the settle sleep, a probe, start_forwarding or kill_process, so that a
\* status() arriving then can take its read guard
NoLockAcrossAwait ==
    /\ \A l \in LoopIds : loops[l].pc \in {"probe", "kill", "restart"} => ~Holds(l)
    /\ pc \in {"start_spawn", "stop_kill"} => ~Holds(Owner)
    /\ InIO => CanRead(lock)

\* a loop is restarting one record while stop() is killing the children it took
LoopAndStopInIO ==
    /\ pc = "stop_kill" /\ call.to_stop /= {}
    /\ \E l \in LoopIds : loops[l].pc = "restart"

\* C12: in remote mode a live child whose remote probe fails is not committed healthy
RemoteProbeFailureIsUnhealthy ==
    \A l \in LoopIds :
        (Evaluated(l) /\ loops[l].probe = "remote" /\ ~loops[l].forwarding_healthy)
            => loops[l].pc /= "commit_healthy"

\* C13: in remote mode a record without a probe target is healthy exactly when its
\* child is alive, and neither probe runs for it
RemoteWithoutTargetLivenessOnly ==
    \A l \in LoopIds :
        (Evaluated(l) /\ ~is_local_mode /\ ~HasProbeTarget(Unwrap(loops[l].key)))
            => /\ loops[l].probe = "none"
               /\ loops[l].process_alive <=> (loops[l].pc = "commit_healthy")

\* a live child of such a record has been evaluated
RemoteWithoutTargetAlive ==
    \E l \in LoopIds :
        /\ Evaluated(l) /\ ~is_local_mode /\ ~HasProbeTarget(Unwrap(loops[l].key))
        /\ loops[l].process_alive
        /\ config.remote_probes /= {}

\* the step in which start_all_tunnels commits its results and start_background returns
StartReturns == pc = "start_spawn" /\ pc' = "idle"

\* C14: a spawn error at the initial start aborts nothing: every record was tried,
\* a record whose spawn failed is committed Down without a child, every record
\* whose spawn succeeded holds its child, and the management loop is started
InitialSpawnErrorTolerated ==
    [][StartReturns =>
          /\ DOMAIN call.results = Keys
          /\ \A k \in Keys :
                IF IsSome(call.results[k])
                THEN tunnels'[k].process = call.results[k] /\ tunnels'[k].health = "Unknown"
                ELSE tunnels'[k].process = None /\ tunnels'[k].health = "Down"
          /\ starts' = starts + 1
          /\ shutdown_tx' = Some(starts')
          /\ loops'[starts'].pc = "select"]_vars

\* the loop runs beside a record whose initial spawn failed and one whose spawn worked
LoopRunsAfterSpawnError ==
    /\ starts = 1 /\ loops[1].pc = "select" /\ pc = "idle"
    /\ \E k1, k2 \in Keys :
          /\ tunnels[k1].health = "Down" /\ tunnels[k1].failure_count = 0
          /\ tunnels[k1].process = None
          /\ tunnels[k2].health = "Unknown" /\ IsSome(tunnels[k2].process)

\* loop l commits a healthy check of the record it holds
HealthyStep(l) == loops[l].pc = "commit_healthy" /\ loops'[l].pc /= "commit_healthy"

\* C15: the healthy check that ends a failure episode leaves the record recovered:
\* Healthy, failure_count 0, no restart deadline, backoff_secs back at
\* backoff_base_secs (for a configuration whose base does not exceed its maximum)
RecoveryRestoresBase ==
    [][\A l \in LoopIds :
          (HealthyStep(l) /\ backoff_base_secs <= backoff_max_secs)
              => LET info == tunnels'[Unwrap(loops[l].key)]
                 IN  /\ info.health = "Healthy"
                     /\ info.failure_count = 0
                     /\ info.next_restart_at = None
                     /\ info.backoff_secs = backoff_base_secs]_vars

\* the evaluation of loop l does not return in this exploration: the record has
\* used up the failures explored and no live child could make the check healthy
CutShort(l) ==
    /\ loops[l].pc = "probe"
    /\ loops[l].failure_count >= fail_cap
    /\ ~(IsSome(loops[l].process_opt) /\ child[Unwrap(loops[l].process_opt)] = "running")

\* C16: once the token is queued for a spawned loop, or its sender is gone, the
\* loop exits, provided the check it is in returns
ShutdownObserved ==
    \A l \in LoopIds :
        (loops[l].pc /= "unspawned" /\ RecvReady(l)) ~> (loops[l].pc = "exited" \/ CutShort(l))

\* stop() has returned and the loop it signalled has exited
LoopExitedAfterStop == stopEpoch = 1 /\ pc = "idle" /\ loops[1].pc = "exited"

\* C17: once start_background has initialised the records, there are as many
\* records as forwarding_list has entries
RecordsMatchForwardingList ==
    DOMAIN tunnels /= {} => Cardinality(DOMAIN tunnels) = Len(config.forwarding_list)

\* C18: after start_background has returned no step changes the key set that
\* status() reports, and a loop that is about to commit finds its record
KeySetFixed ==
    [][starts >= 1 =>
          /\ DOMAIN get_status' = DOMAIN get_status
          /\ DOMAIN get_status = Keys
          /\ \A l \in LoopIds : Evaluated(l) => Unwrap(loops[l].key) \in DOMAIN tunnels]_vars

\* a record has crossed the failure threshold and stop() has returned, the keys as they were
KeysAfterRestartAndStop ==
    /\ stopEpoch = 1 /\ pc = "idle"
    /\ \E k \in Keys : tunnels[k].failure_count >= max_failures
    /\ Cardinality(DOMAIN get_status) = NumSpecs

\* C20: the effective backoff values of a configuration that validate accepted,
\* as the records created from it use them, satisfy 1 <= base <= max
EffectiveBackoffOrdered ==
    DOMAIN tunnels /= {} =>
        /\ Validate(config)
        /\ 1 <= backoff_base_secs
        /\ backoff_base_secs <= backoff_max_secs

\* ceil(b * pct / 100) in the integers
ExactJitter(b, pct) == div_ceil(unbounded_mul(b, pct), 100)

\* C19: a call of jitter_secs returns ceil(b * pct / 100) for the pct of its two
\* ports, a value between ceil(0.8 * b) and ceil(1.2 * b), and the same value
\* when called again
JitterWithinBand ==
    /\ jit.out /= None =>
          LET r == Unwrap(jit.out)
          IN  /\ r = ExactJitter(jit.base_secs, jitter_pct(jit.bind_port, jit.remote_port))
              /\ Leq(ExactJitter(jit.base_secs, 80), r)
              /\ Leq(r, ExactJitter(jit.base_secs, 120))
    /\ jit.again /= None => jit.again = jit.out

----------------------------------------------------------------------------
(* Properties of the forwarding strings *)

\* the parts of s between the colons that are not inside brackets
RECURSIVE GrammarSplit(_, _, _, _)
GrammarSplit(s, i, part, bracketed) ==
    IF i > Len(s) THEN <<part>>
    ELSE IF s[i] = ":" /\ ~bracketed THEN <<part>> \o GrammarSplit(s, i + 1, << >>, FALSE)
    ELSE GrammarSplit(s, i + 1, Append(part, s[i]),
                      IF s[i] = "[" THEN TRUE ELSE IF s[i] = "]" THEN FALSE ELSE bracketed)

\* a decimal u16
DecimalPort(p) ==
    /\ Len(p) > 0
    /\ \A i \in 1..Len(p) : p[i] \in Digits
    /\ DigitsValue(p, 1, 0) <= U16Max

\* the two port parts of a string of the grammar ([bind_addr]:)? port : host : port
GrammarPorts(s) ==
    LET parts == GrammarSplit(s, 1, << >>, FALSE)
    IN  IF Len(parts) = 3 THEN <<parts[1], parts[3]>>
        ELSE IF Len(parts) = 4 THEN <<parts[2], parts[4]>>
        ELSE << >>

InGrammar(s) ==
    /\ Len(GrammarPorts(s)) = 2
    /\ \A i \in 1..2 : DecimalPort(GrammarPorts(s)[i])

\* a string of the grammar whose ports are written as to_ssh_arg writes them
Canonical(s) ==
    /\ InGrammar(s)
    /\ \A i \in 1..2 : GrammarPorts(s)[i] = to_string(DigitsValue(GrammarPorts(s)[i], 1, 0))

\* C22: parse succeeds on every canonical forwarding string, and to_ssh_arg of
\* what it returned is the string again
RoundTrip ==
    Canonical(fwdcall.input) =>
        /\ fwdcall.out /= None => IsSome(Unwrap(fwdcall.out))
        /\ fwdcall.arg /= None => Unwrap(fwdcall.arg) = fwdcall.input

\* C23: parse accepts a string exactly when it is of the grammar
\* ([bind_addr]:)? bind_port : remote_host : remote_port with decimal u16 ports,
\* a bracketed bind_addr counting as one part
ParseAcceptsGrammar ==
    fwdcall.out /= None => (IsSome(Unwrap(fwdcall.out)) <=> InGrammar(fwdcall.input))

----------------------------------------------------------------------------
(* Properties of TunnelManager::new *)

NewReturns == pc = "new" /\ pc' /= "new"

\* an entry of the forwarding list is not a string of the grammar
HasMalformed(c) ==
    \E i \in 1..Len(c.forwarding_list) : ~InGrammar(ForwardingString(c.forwarding_list[i]))

\* C21: new fails on a configuration with a malformed forwarding string or an
\* empty list, and then there is no manager that could take a step; when it
\* succeeds the record map and status() are empty, no child exists, no loop
\* is spawned and no shutdown sender is installed
ConstructionChecked ==
    [][/\ pc /= "failed"
       /\ NewReturns =>
            /\ (HasMalformed(config) \/ Len(config.forwarding_list) = 0) => pc' = "failed"
            /\ pc' /= "failed" =>
                  /\ pc' = "idle"
                  /\ tunnels' = << >> /\ DOMAIN get_status' = {}
                  /\ shutdown_tx' = None
                  /\ \A c \in Children : child'[c] = "unborn"
                  /\ \A l \in LoopIds : loops'[l].pc = "unspawned"]_vars

\* new has returned Err for a configuration with a malformed forwarding string
NewFailedOnMalformed == pc = "failed" /\ HasMalformed(config)

----------------------------------------------------------------------------
(* Properties of drop *)

\* C24: a manager that is in no call can be dropped at once, whatever the loops,
\* the lock and the children are doing, and after a drop without stop() every
\* spawned loop exits, provided the check it is in returns
DropSignalsShutdown ==
    /\ [](pc = "idle" => ENABLED Drop)
    /\ \A l \in LoopIds :
          (pc = "dropped" /\ stopEpoch = 0 /\ loops[l].pc /= "unspawned")
              ~> (loops[l].pc = "exited" \/ CutShort(l))

\* the manager was dropped without stop() and its loop has exited
LoopExitedAfterDrop == pc = "dropped" /\ stopEpoch = 0 /\ loops[1].pc = "exited"

----------------------------------------------------------------------------
(* Properties of one check *)

\* loop l leaves position p: the commit of that branch
Leaves(l, p) == loops[l].pc = p /\ loops'[l].pc /= p

\* loop l takes the child of record k out for a check
Takes(l, k) == loops[l].pc = "next" /\ loops'[l].pc = "probe" /\ loops'[l].key = Some(k)

\* C25: an evaluation takes the way of the restart cycle only with failure_count at
\* max_failures or above; the commit of an unhealthy check below it puts the taken
\* child back unkilled, sets Down, adds one to failure_count and leaves
\* next_restart_at and backoff_secs as they were
BelowThresholdOnlyCounts ==
    [][\A l \in LoopIds :
          /\ (loops[l].pc = "probe"
                /\ loops'[l].pc \in {"kill", "restart", "commit_first", "commit_wait"})
                => loops'[l].failure_count >= max_failures
          /\ Leaves(l, "commit_down") =>
                LET k == Unwrap(loops[l].key)
                IN  /\ tunnels'[k].failure_count = tunnels[k].failure_count + 1
                    /\ tunnels'[k].failure_count < max_failures
                    /\ tunnels'[k].health = "Down"
                    /\ tunnels'[k].next_restart_at = tunnels[k].next_restart_at
                    /\ tunnels'[k].backoff_secs = tunnels[k].backoff_secs
                    /\ tunnels'[k].process = loops[l].process_opt
                    /\ IsSome(loops[l].process_opt)
                          => child[Unwrap(loops[l].process_opt)] /= "killed"
                    /\ child' = child]_vars

\* a record is Down after its second failed check, its child back in place
DownWithChild ==
    \E k \in Keys :
        /\ k \in DOMAIN tunnels
        /\ tunnels[k].health = "Down" /\ tunnels[k].failure_count = 2
        /\ IsSome(tunnels[k].process) /\ child[Unwrap(tunnels[k].process)] = "running"

\* C27: the commit of a successful restart stores the new child, Unknown,
\* failure_count 0 and no restart deadline
RestartEndsEpisode ==
    [][\A l \in LoopIds :
          Leaves(l, "commit_restarted") =>
              LET k == Unwrap(loops[l].key)
              IN  /\ IsSome(loops[l].process_opt)
                  /\ tunnels[k].failure_count >= max_failures
                  /\ IsSome(tunnels[k].next_restart_at)
                  /\ tunnels'[k].process = loops[l].process_opt
                  /\ tunnels'[k].health = "Unknown"
                  /\ tunnels'[k].failure_count = 0
                  /\ tunnels'[k].next_restart_at = None]_vars

\* record 1 holds the second child, fresh from a restart
RestartedWithNewChild ==
    /\ 1 \in DOMAIN tunnels
    /\ tunnels[1].process = Some(2) /\ tunnels[1].health = "Unknown"
    /\ tunnels[1].failure_count = 0 /\ tunnels[1].next_restart_at = None

\* C28: a check takes the child the record holds, and a healthy check puts that
\* child back and commits Healthy, failure_count 0 and no restart deadline
HealthyPutsChildBack ==
    [][\A l \in LoopIds :
          /\ \A k \in Keys : Takes(l, k) => loops'[l].process_opt = tunnels[k].process
          /\ Leaves(l, "commit_healthy") =>
                LET k == Unwrap(loops[l].key)
                IN  /\ IsSome(loops[l].process_opt)
                    /\ tunnels'[k].process = loops[l].process_opt
                    /\ tunnels'[k].health = "Healthy"
                    /\ tunnels'[k].failure_count = 0
                    /\ tunnels'[k].next_restart_at = None]_vars

\* a record is Healthy with its child in place
HealthyWithChild ==
    \E k \in Keys :
        /\ k \in DOMAIN tunnels
        /\ tunnels[k].health = "Healthy" /\ IsSome(tunnels[k].process)

\* C26: the commit of the first threshold crossing of an episode stores no child,
\* Down, backoff_secs = max(backoff_secs, backoff_base_secs) and the deadline
\* jittered from it; a child that was taken has been killed by then, and the
\* evaluation did not go on to a restart attempt
FirstCrossingSchedules ==
    [][\A l \in LoopIds :
          /\ (loops[l].pc = "probe" /\ loops'[l].failure_count >= max_failures
                /\ loops'[l].pc /= "commit_healthy" /\ loops[l].next_restart_at = None)
                => loops'[l].pc \in {"kill", "commit_first"}
          /\ Leaves(l, "kill") => loops'[l].pc = "commit_first"
          /\ Leaves(l, "commit_first") =>
                LET k == Unwrap(loops[l].key)
                    backoff == Max(tunnels[k].backoff_secs, backoff_base_secs)
                IN  /\ tunnels'[k].process = None
                    /\ tunnels'[k].health = "Down"
                    /\ tunnels'[k].backoff_secs = backoff
                    /\ tunnels'[k].next_restart_at = Some(jitter_secs(backoff, k))
                    /\ loops'[l].pc \in {"select", "next"}]_vars

\* C29: a healthy commit and the commit of a successful restart store
\* backoff_secs = backoff_base_secs
ResetToConfiguredBase ==
    [][\A l \in LoopIds :
          (Leaves(l, "commit_healthy") \/ Leaves(l, "commit_restarted"))
              => tunnels'[Unwrap(loops[l].key)].backoff_secs = backoff_base_secs]_vars

\* C30: the commit of a failed restart stores no child, Down,
\* backoff_secs = min(2 * backoff_secs, backoff_max_secs) and the deadline jittered
\* from the new backoff_secs; the failure_count stays at max_failures or above
FailedRestartGrowsBackoff ==
    [][\A l \in LoopIds :
          Leaves(l, "commit_restart_failed") =>
              LET k == Unwrap(loops[l].key)
                  backoff == Min(2 * tunnels[k].backoff_secs, backoff_max_secs)
              IN  /\ tunnels'[k].process = None
                  /\ tunnels'[k].health = "Down"
                  /\ tunnels'[k].backoff_secs = backoff
                  /\ tunnels'[k].next_restart_at = Some(jitter_secs(backoff, k))
                  /\ k \notin reached'
                  /\ tunnels'[k].failure_count >= max_failures]_vars

\* a record whose restart failed at the ceiling: backoff_secs stays at the maximum
FailedRestartAtCeiling ==
    /\ IsSome(config.backoff_max_secs)
    /\ \E k \in Keys :
          /\ k \in DOMAIN tunnels
          /\ tunnels[k].health = "Down" /\ IsSome(tunnels[k].next_restart_at)
          /\ tunnels[k].backoff_secs = backoff_max_secs
          /\ tunnels[k].failure_count > max_failures + 1

----------------------------------------------------------------------------
(* Properties of failure_count *)

\* the step stores an observation or a start that lets record k start afresh: a
\* healthy commit, the commit of a successful restart, or the result of a
\* successful initial spawn
RecoveryOf(k) ==
    \/ \E l \in LoopIds :
          /\ loops[l].key = Some(k)
          /\ Leaves(l, "commit_healthy") \/ Leaves(l, "commit_restarted")
    \/ StartReturns /\ k \in DOMAIN call.results /\ IsSome(call.results[k])

\* C31: a step that lowers the failure_count of a record sets it to 0 and is a
\* healthy commit, the commit of a successful restart or a successful initial
\* spawn; every other step leaves it as it was or raises it, and a record that
\* waits for a restart has failure_count >= max_failures
CountResetOnlyOnRecovery ==
    /\ [](\A k \in DOMAIN tunnels :
             IsSome(tunnels[k].next_restart_at) => tunnels[k].failure_count >= max_failures)
    /\ [][\A k \in DOMAIN tunnels \cap DOMAIN tunnels' :
             tunnels'[k].failure_count < tunnels[k].failure_count
                 => tunnels'[k].failure_count = 0 /\ RecoveryOf(k)]_vars

----------------------------------------------------------------------------
(* Properties of a tick *)

\* the child handle c is stored in a record
InRecord(c) == \E k \in DOMAIN tunnels : tunnels[k].process = Some(c)

\* c was returned by the start_forwarding of start_all_tunnels and waits for its
\* results to be applied
InResults(c) == \E k \in DOMAIN call.results : call.results[k] = Some(c)

\* the spawned, unkilled children that neither a record nor a public call holds
OutOfRecord ==
    {c \in Children : /\ child[c] \in {"running", "exited"}
                      /\ ~InRecord(c) /\ ~InResults(c) /\ c \notin call.to_stop}

\* the loops inside an operation on a child or the network
LoopsInIO == {l \in LoopIds : loops[l].pc \in {"probe", "kill", "restart"}}

\* C32: at any moment of a tick at most one record is in a check, at most one
\* child is out of its record, the one the check in progress took or spawned, and
\* at most one probe, kill_process or start_forwarding of the loop is in flight
OneRecordAtATime ==
    /\ Cardinality({k \in DOMAIN tunnels : \E l \in LoopIds : loops[l].key = Some(k)}) <= 1
    /\ Cardinality(OutOfRecord) <= 1
    /\ \A c \in OutOfRecord : \E l \in LoopIds : InCheck(l) /\ loops[l].process_opt = Some(c)
    /\ Cardinality(LoopsInIO) <= 1

\* the child of one record is out for its probe while another record holds its child
ProbeBesideStoredChild ==
    \E l \in LoopIds :
        /\ loops[l].pc = "probe" /\ IsSome(loops[l].process_opt)
        /\ loops[l].keys /= {}
        /\ \E k \in DOMAIN tunnels :
              Some(k) /= loops[l].key /\ IsSome(tunnels[k].process)

----------------------------------------------------------------------------
(* Properties of the initial spawn *)

\* C33: when start_background returns, every record has had one spawn attempt of
\* this call and holds either a child, Unknown and failure_count 0, or no child
\* and Down; a result is applied only to a record that is still empty, and a
\* management loop is spawned by this step only, after the results are committed
InitialSpawnPostcondition ==
    [][/\ StartReturns =>
            /\ DOMAIN call.results = DOMAIN tunnels
            /\ \A k \in DOMAIN tunnels' :
                  \/ /\ IsSome(tunnels'[k].process)
                     /\ tunnels'[k].health = "Unknown"
                     /\ tunnels'[k].failure_count = 0
                  \/ /\ tunnels'[k].process = None
                     /\ tunnels'[k].health = "Down"
            /\ \A k \in DOMAIN tunnels :
                  IsSome(tunnels[k].process) => tunnels'[k] = tunnels[k]
       /\ \A l \in LoopIds :
             (loops[l].pc = "unspawned" /\ loops'[l].pc /= "unspawned")
                 => StartReturns /\ loops'[l].pc = "select"]_vars

----------------------------------------------------------------------------
(* Properties of the parsed spec *)

\* C35: the remote_host of every spec that parse returns is not empty, so a
\* string such as "8080::9000" is rejected
RemoteHostNotEmpty ==
    (fwdcall.out /= None /\ IsSome(Unwrap(fwdcall.out)))
        => Len(Unwrap(Unwrap(fwdcall.out)).remote_host) > 0

\* C36: for a forwarding string that validate accepted and that is a key of
\* remote_probes with a target host:port, remote_probe_target on the parsed spec
\* returns Some((host, port)) of that target
ProbeEntryEffective ==
    fwdcall.target /= None =>
        LET cut == Unwrap(rsplit_once(fwdcall.probe, ":"))
        IN  Unwrap(fwdcall.target) = Some(<<cut[1], Unwrap(parse_u16(cut[2]))>>)

----------------------------------------------------------------------------
(* Properties of the child handles *)

\* the places that hold the handle of child c: a record, the check in progress of
\* a loop, the results start_all_tunnels has not applied yet, the children
\* stop_all_tunnels took and has not killed yet
Holders(c) ==
    {<<"record", k>> : k \in {x \in DOMAIN tunnels : tunnels[x].process = Some(c)}}
        \cup {<<"check", l>> : l \in {x \in LoopIds : InCheck(x) /\ loops[x].process_opt = Some(c)}}
        \cup {<<"start", k>> : k \in {x \in DOMAIN call.results : call.results[x] = Some(c)}}
        \cup (IF c \in call.to_stop THEN {<<"stop", 0>>} ELSE {})

\* C37: every child that start_forwarding returned and that has not been passed to
\* kill_process is held in exactly one place, and a killed child in none
NoChildLost ==
    \A c \in Children :
        /\ child[c] \in {"running", "exited"} => Cardinality(Holders(c)) = 1
        /\ child[c] \in {"killed", "unborn"} => Holders(c) = {}

====
